---- MODULE Spec2Model ----
(***************************************************************************)
(* Photonic band gap visualizer: the FastAPI backend                       *)
(* (src/backend/fastapi_mpb.py: POST /bands, POST /transmission,           *)
(* GET /health) and the Streamlit dashboard (src/streamlit_app.py) that    *)
(* calls it.                                                               *)
(*                                                                         *)
(* Units.  Real numbers of the program are carried as integers:            *)
(*   epsilon      in tenths            (89 is 8.9)                         *)
(*   r_over_a     in hundredths        (20 is 0.20)                        *)
(*   radius       in thousandths of the lattice constant a = 1             *)
(*   a k-point    as <<x, y>> over the denominator 6 * (n + 1), n the      *)
(*                number of interpolated points per segment; on the        *)
(*                triangular lattice y is further in units of 1/sqrt(3)    *)
(* The electromagnetic engine (meep / MPB) is outside the repository: a    *)
(* solve is modelled by the shape of what it returns and by the inputs     *)
(* each returned number depends on.                                        *)
(*                                                                         *)
(* src/fastapi_mpb.py is an earlier copy of the /bands route followed by   *)
(* the text of a Dockerfile, so it cannot be imported as a Python module;  *)
(* its lattice branches, its radius (r_over_a * 0.5 * 1) and its use of    *)
(* mp.interpolate are those of src/backend/fastapi_mpb.py, the application *)
(* modelled here.  The label of the zone centre is written "Gamma".        *)
(***************************************************************************)
EXTENDS Integers, Sequences, FiniteSets, TLC

VARIABLES
    request,        \* backend: per worker thread, the HTTP request it serves
    frame,          \* backend: per worker thread, the handler's Python frame
    response,       \* backend: per worker thread, the HTTP response it sends
    runs,           \* backend: per worker thread, engine runs made for the request
    BACKEND_URL,    \* dashboard: the configured backend address, "" when unset
    session,        \* dashboard: st.session_state (bands_data, tx_data, att_data)
    last,           \* dashboard: what the latest script run did
    served          \* the backend invocation whose response is in bands_data

vars == <<request, frame, response, runs, BACKEND_URL, session, last, served>>
backend_vars == <<request, frame, response, runs>>
dashboard_vars == <<BACKEND_URL, session, last, served>>

(***************************************************************************)
(* Bounds of the model and input values.                                   *)
(***************************************************************************)
MaxSeg == 0

\* FastAPI serves a plain "def" route in a thread pool: two threads here
Workers == {1, 2}

\* epsilon: 0.5 (below 1) and 8.9; r_over_a: 0.20 and 0.50 (not below 0.5)
EpsValues == {5, 89}
RatioValues == {20, 50}
LatticeWords == {"square", "triangular", "hexagonal"}
SegValues == (0 .. MaxSeg) \cup {20}

BandInput ==
    [epsilon : EpsValues, r_over_a : RatioValues, num_bands : {2},
     resolution : {32}, k_points_per_segment : SegValues, lattice : LatticeWords]

TxInput ==
    [epsilon : {5, 35}, r_over_a : {16}, a_mm : {7},
     nx : {2}, ny : {1}, lattice : LatticeWords,
     resolution : {24}, fmin_GHz : {5}, fmax_GHz : {35}, nfreq : {2}]

(***************************************************************************)
(* Helpers on sequences.                                                   *)
(***************************************************************************)
RECURSIVE Concat(_)
Concat(ss) == IF ss = <<>> THEN <<>> ELSE Head(ss) \o Concat(Tail(ss))

Last(s) == s[Len(s)]

(***************************************************************************)
(* mp.interpolate(n, pts): between each two consecutive points, the first  *)
(* point and n evenly spaced interior points (numpy.linspace with n + 1    *)
(* samples and endpoint excluded); the last point closes the list.         *)
(* Coordinates are numerators over 6 * (n + 1).                            *)
(***************************************************************************)
Lerp(low, high, n, j) ==
    <<low[1] * (n + 1 - j) + high[1] * j, low[2] * (n + 1 - j) + high[2] * j>>

\* interpolate without the closing point
interpolateOpen(n, pts) ==
    Concat([s \in 1 .. Len(pts) - 1 |->
               [j \in 1 .. n + 1 |-> Lerp(pts[s], pts[s + 1], n, j - 1)]])

interpolate(n, pts) ==
    Concat([s \in 1 .. Len(pts) - 1 |->
               [j \in 1 .. n + 1 |-> Lerp(pts[s], pts[s + 1], n, j - 1)]])
    \o << <<Last(pts)[1] * (n + 1), Last(pts)[2] * (n + 1)>> >>

\* High-symmetry points in sixths of the reciprocal cell
SquarePath == << <<0, 0>>, <<3, 0>>, <<3, 3>>, <<0, 0>> >>
TriangularPath == << <<0, 0>>, <<3, 3>>, <<2, 2>>, <<0, 0>> >>
SquareLabels == <<"Gamma", "X", "M", "Gamma">>
TriangularLabels == <<"Gamma", "M", "K", "Gamma">>

(***************************************************************************)
(* POST /bands: compute_bands, one operator per stage of the handler.  A   *)
(* frame is [pc, locals, out]: the stage about to run, the names bound so  *)
(* far, and the HTTP response once the handler has returned or raised.     *)
(***************************************************************************)
NoResponse == <<>>

StartBands(inp) == [pc |-> "lattice", locals |-> [inp |-> inp], out |-> NoResponse]

Returned(f, body) ==
    [f EXCEPT !.pc = "done", !.out = <<[status |-> 200, body |-> body]>>]

\* an exception escaping a route: FastAPI answers 500
Raised(f) ==
    [f EXCEPT !.pc = "done",
              !.out = <<[status |-> 500, body |-> [detail |-> "Internal Server Error"]]>>]

BandsLatticeStep(f) ==
    LET inp == f.locals.inp IN
    IF inp.lattice = "square"
    THEN [f EXCEPT !.pc = "geometry",
                   !.locals = @ @@ [geometry_lattice |-> [size |-> <<1, 1>>, basis |-> "cartesian"],
                                    k_points |-> interpolate(inp.k_points_per_segment, SquarePath),
                                    labels |-> SquareLabels]]
    ELSE IF inp.lattice = "triangular"
    THEN [f EXCEPT !.pc = "geometry",
                   !.locals = @ @@ [geometry_lattice |-> [size |-> <<1, 1>>, basis |-> "triangular"],
                                    k_points |-> interpolate(inp.k_points_per_segment, TriangularPath),
                                    labels |-> TriangularLabels]]
    ELSE Returned(f, [error |-> "unknown lattice"])

\* radius = inp.r_over_a * 0.5, in thousandths of a
RodRadius(r_over_a) == r_over_a * 5

BandsGeometryStep(f) ==
    LET radius == RodRadius(f.locals.inp.r_over_a) IN
    [f EXCEPT !.pc = "solver",
              !.locals = @ @@ [radius |-> radius,
                               geometry |-> <<[radius |-> radius,
                                               epsilon |-> f.locals.inp.epsilon,
                                               center |-> <<0, 0>>]>>]]

BandsSolverStep(f) ==
    [f EXCEPT !.pc = "run_tm",
              !.locals = @ @@ [ms |-> [num_bands |-> f.locals.inp.num_bands,
                                       k_points |-> f.locals.k_points,
                                       geometry_lattice |-> f.locals.geometry_lattice,
                                       geometry |-> f.locals.geometry,
                                       resolution |-> f.locals.inp.resolution,
                                       default_material |-> 10]]]

\* The engine's documented domain: dielectric rods (epsilon >= 1) that fit
\* in the unit cell (0 < radius < a/2).  Outside it the source does not say
\* what a run does: it may return numbers or raise.
EngineDomain(geometry) ==
    \A i \in 1 .. Len(geometry) :
        geometry[i].epsilon >= 10 /\ geometry[i].radius > 0 /\ geometry[i].radius < 500

\* ms.all_freqs: one row per k-point, one column per band
AllFreqs(ms) ==
    [i \in 1 .. Len(ms.k_points) |->
        [b \in 1 .. ms.num_bands |->
            <<ms.geometry[1].epsilon, ms.geometry[1].radius, ms.k_points[i], b>>]]

RunTMReturns(f) ==
    [f EXCEPT !.pc = "return", !.locals = @ @@ [freqs |-> AllFreqs(f.locals.ms)]]

\* a failed run sent back to build the solver again
RunTMRetries(f) == [f EXCEPT !.pc = "solver"]

RunTMRaises(f) == Raised(f)

BandsReturnStep(f) ==
    Returned(f, [k_path_labels |-> f.locals.labels, frequencies |-> f.locals.freqs])

(***************************************************************************)
(* POST /transmission: transmission, one operator per stage.               *)
(* Frequencies in Meep units (a / lambda) are in units of 10^6 / c0, with   *)
(* c0 = 299792458; a linspace of num samples is a sequence of numerators   *)
(* over num - 1.  fcen is carried doubled.  A position is <<2x, y, s>>,    *)
(* (x, y + s * sqrt(3)/2); a height is <<h, s>>, standing for              *)
(* h + s * sqrt(3)/2.                                                      *)
(***************************************************************************)
dpml == 1

StartTx(inp) == [pc |-> "axis", locals |-> [inp |-> inp], out |-> NoResponse]

\* _GHz_to_meep_freq(f_GHz, _a_from_mm(a_mm)) = (a_mm * 1e-3) * (f_GHz * 1e9) / c0
GHzToMeepFreq(f_GHz, a_mm) == a_mm * f_GHz

linspace(lo, hi, num) ==
    IF num = 1 THEN <<lo>> ELSE [i \in 1 .. num |-> lo * (num - 1) + (i - 1) * (hi - lo)]

TxAxisStep(f) ==
    LET inp == f.locals.inp
        fmin == GHzToMeepFreq(inp.fmin_GHz, inp.a_mm)
        fmax == GHzToMeepFreq(inp.fmax_GHz, inp.a_mm)
    IN [f EXCEPT !.pc = "lattice",
                 !.locals = @ @@ [a_m |-> inp.a_mm, fmin |-> fmin, fmax |-> fmax,
                                  fc |-> linspace(fmin, fmax, inp.nfreq)]]

TxLatticeStep(f) ==
    LET inp == f.locals.inp IN
    IF inp.lattice = "triangular"
    THEN [f EXCEPT !.pc = "geometry",
                   !.locals = @ @@ [height |-> <<0, inp.ny>>,
                                    basis |-> << <<0, 0, 0>>, <<1, 0, 1>> >>]]
    ELSE [f EXCEPT !.pc = "geometry",
                   !.locals = @ @@ [height |-> <<inp.ny, 0>>,
                                    basis |-> << <<0, 0, 0>> >>]]

\* the rods appended by the three nested loops, in loop order
Rods(inp, basis, r) ==
    Concat([ix \in 1 .. inp.nx |->
        Concat([iy \in 1 .. inp.ny |->
            [b \in 1 .. Len(basis) |->
                [radius |-> r, epsilon |-> inp.epsilon,
                 center |-> IF inp.lattice = "triangular"
                            THEN <<2 * (ix - 1) + basis[b][1], (iy - 1) + basis[b][2], basis[b][3]>>
                            ELSE <<2 * (ix - 1) + basis[b][1], iy - 1, 0>>]]])])

TxGeometryStep(f) ==
    LET r == RodRadius(f.locals.inp.r_over_a) IN
    [f EXCEPT !.pc = "crystal",
              !.locals = @ @@ [r |-> r, geometry |-> Rods(f.locals.inp, f.locals.basis, r)]]

\* mp.get_fluxes after a run: one number per spectrum sample, a function of
\* the sample, the cell, the resolution and the rods
Fluxes(cell, geometry, resolution, nfreq) ==
    [i \in 1 .. nfreq |->
        <<i, cell, resolution, Len(geometry),
          IF geometry = <<>> THEN <<>> ELSE <<geometry[1].radius, geometry[1].epsilon>> >>]

TxCrystalReturns(f) ==
    LET inp == f.locals.inp
        cell == [sx |-> inp.nx + 2 * dpml + 2,
                 sy |-> <<f.locals.height[1] + 2 * dpml, f.locals.height[2]>>]
    IN [f EXCEPT !.pc = "reference",
                 !.locals = @ @@ [cell |-> cell,
                                  fcen |-> f.locals.fc[1] + Last(f.locals.fc),
                                  fwidth |-> Last(f.locals.fc) - f.locals.fc[1],
                                  tran_spec |-> Fluxes(cell, f.locals.geometry,
                                                       inp.resolution, inp.nfreq)]]

TxCrystalRaises(f) == Raised(f)

TxReferenceStep(f) ==
    [f EXCEPT !.pc = "return",
              !.locals = @ @@ [tran0_spec |-> Fluxes(f.locals.cell, <<>>,
                                                     f.locals.inp.resolution,
                                                     f.locals.inp.nfreq)]]

TxReturnStep(f) ==
    LET inp == f.locals.inp IN
    Returned(f, [frequency_GHz |-> linspace(inp.fmin_GHz, inp.fmax_GHz, inp.nfreq),
                 transmission_dB |-> [i \in 1 .. inp.nfreq |->
                                         <<f.locals.tran_spec[i], f.locals.tran0_spec[i]>>]])

(***************************************************************************)
(* The backend as a state machine.  Each worker thread serves one request  *)
(* at a time; the threads interleave at the stages of the handlers.        *)
(***************************************************************************)
Routes == {<<"POST", "/bands">>, <<"POST", "/transmission">>, <<"GET", "/health">>}

AttInput ==
    [epsilon : {35}, r_over_a : {16}, a_mm : {7}, ny : {8}, nmax : {10},
     f0_GHz : {15}, lattice : {"square"}, resolution : {24}]

\* one frame for all threads, as with module-level names: the oldest live one
OwnShared(w) ==
    frame[CHOOSE v \in Workers :
             /\ frame[v] # <<>>
             /\ \A u \in Workers : frame[u] # <<>> => v <= u][1]

\* the frame of the invocation worker w is running
Own(w) == frame[w][1]

Idle(w) == request[w] = <<>>
At(w, path, pc) ==
    /\ request[w] # <<>> /\ frame[w] # <<>>
    /\ request[w][1].path = path
    /\ Own(w).pc = pc

\* worker w leaves the stage it is at with frame g
Advance(w, g) ==
    IF g.pc = "done"
    THEN /\ frame' = [frame EXCEPT ![w] = <<>>]
         /\ response' = [response EXCEPT ![w] = g.out]
    ELSE /\ frame' = [frame EXCEPT ![w] = <<g>>]
         /\ UNCHANGED response

Call(w, method, path, inp, f) ==
    /\ Idle(w)
    /\ request' = [request EXCEPT ![w] = <<[method |-> method, path |-> path, inp |-> inp]>>]
    /\ frame' = [frame EXCEPT ![w] = <<f>>]
    /\ runs' = [runs EXCEPT ![w] = 0]
    /\ UNCHANGED <<response, dashboard_vars>>

Stage(w, g) ==
    /\ Advance(w, g)
    /\ UNCHANGED <<request, runs, dashboard_vars>>

EngineRun(w, g) ==
    /\ Advance(w, g)
    /\ runs' = [runs EXCEPT ![w] = @ + 1]
    /\ UNCHANGED <<request, dashboard_vars>>

AcceptBands(w) == \E inp \in BandInput : Call(w, "POST", "/bands", inp, StartBands(inp))
BandsLattice(w) == At(w, "/bands", "lattice") /\ Stage(w, BandsLatticeStep(Own(w)))
BandsGeometry(w) == At(w, "/bands", "geometry") /\ Stage(w, BandsGeometryStep(Own(w)))
BandsSolver(w) == At(w, "/bands", "solver") /\ Stage(w, BandsSolverStep(Own(w)))
BandsRunTM(w) == At(w, "/bands", "run_tm") /\ EngineRun(w, RunTMReturns(Own(w)))
BandsRunTMFails(w) ==
    /\ At(w, "/bands", "run_tm")
    /\ ~EngineDomain(Own(w).locals.ms.geometry)
    /\ EngineRun(w, RunTMRaises(Own(w)))
BandsReturn(w) == At(w, "/bands", "return") /\ Stage(w, BandsReturnStep(Own(w)))

AcceptTx(w) == \E inp \in TxInput : Call(w, "POST", "/transmission", inp, StartTx(inp))
TxAxis(w) == At(w, "/transmission", "axis") /\ Stage(w, TxAxisStep(Own(w)))
TxLattice(w) == At(w, "/transmission", "lattice") /\ Stage(w, TxLatticeStep(Own(w)))
TxGeometry(w) == At(w, "/transmission", "geometry") /\ Stage(w, TxGeometryStep(Own(w)))
TxCrystal(w) == At(w, "/transmission", "crystal") /\ EngineRun(w, TxCrystalReturns(Own(w)))
TxCrystalFails(w) ==
    /\ At(w, "/transmission", "crystal")
    /\ ~EngineDomain(Own(w).locals.geometry)
    /\ EngineRun(w, TxCrystalRaises(Own(w)))
TxReference(w) == At(w, "/transmission", "reference") /\ EngineRun(w, TxReferenceStep(Own(w)))
TxReturn(w) == At(w, "/transmission", "return") /\ Stage(w, TxReturnStep(Own(w)))

\* GET /health: the whole handler is one step
HealthBody == [ok |-> TRUE]
Health(w) ==
    /\ Idle(w)
    /\ request' = [request EXCEPT ![w] = <<[method |-> "GET", path |-> "/health"]>>]
    /\ response' = [response EXCEPT ![w] = <<[status |-> 200, body |-> HealthBody]>>]
    /\ runs' = [runs EXCEPT ![w] = 0]
    /\ UNCHANGED <<frame, dashboard_vars>>

\* a path no route is registered for: the router answers 404
NotFoundBody == [detail |-> "Not Found"]
NotFound(w) ==
    /\ Idle(w)
    /\ \E inp \in AttInput :
          /\ <<"POST", "/attenuation">> \notin Routes
          /\ request' = [request EXCEPT ![w] =
                            <<[method |-> "POST", path |-> "/attenuation", inp |-> inp]>>]
    /\ response' = [response EXCEPT ![w] = <<[status |-> 404, body |-> NotFoundBody]>>]
    /\ runs' = [runs EXCEPT ![w] = 0]
    /\ UNCHANGED <<frame, dashboard_vars>>

\* the response leaves; the invocation's objects are gone
Deliver(w) ==
    /\ response[w] # <<>>
    /\ request' = [request EXCEPT ![w] = <<>>]
    /\ response' = [response EXCEPT ![w] = <<>>]
    /\ UNCHANGED <<frame, runs, dashboard_vars>>

(***************************************************************************)
(* A handler run from its first stage to its response: what a caller that  *)
(* waits for the response gets.  A set, since a run of the engine outside  *)
(* its domain has more than one outcome.                                   *)
(***************************************************************************)
compute_bands(inp) ==
    LET f1 == BandsLatticeStep(StartBands(inp)) IN
    IF f1.pc = "done" THEN {f1}
    ELSE LET f4 == BandsSolverStep(BandsGeometryStep(f1)) IN
         {BandsReturnStep(RunTMReturns(f4))}
         \cup (IF EngineDomain(f4.locals.ms.geometry) THEN {} ELSE {RunTMRaises(f4)})

transmission(inp) ==
    LET f3 == TxGeometryStep(TxLatticeStep(TxAxisStep(StartTx(inp)))) IN
    {TxReturnStep(TxReferenceStep(TxCrystalReturns(f3)))}
    \cup (IF EngineDomain(f3.locals.geometry) THEN {} ELSE {TxCrystalRaises(f3)})

\* the final frames of the handler the router picks for a request
Handle(method, path, inp) ==
    IF <<method, path>> \notin Routes
    THEN {[pc |-> "done", locals |-> [inp |-> inp],
           out |-> <<[status |-> 404, body |-> NotFoundBody]>>]}
    ELSE IF path = "/bands" THEN compute_bands(inp)
    ELSE IF path = "/transmission" THEN transmission(inp)
    ELSE {[pc |-> "done", locals |-> [inp |-> inp],
           out |-> <<[status |-> 200, body |-> HealthBody]>>]}

Step(w) ==
    \/ AcceptBands(w) \/ BandsLattice(w) \/ BandsGeometry(w) \/ BandsSolver(w)
    \/ BandsRunTM(w) \/ BandsRunTMFails(w) \/ BandsReturn(w)
    \/ AcceptTx(w) \/ TxAxis(w) \/ TxLattice(w) \/ TxGeometry(w)
    \/ TxCrystal(w) \/ TxCrystalFails(w) \/ TxReference(w) \/ TxReturn(w)
    \/ Health(w) \/ NotFound(w) \/ Deliver(w)

(***************************************************************************)
(* The dashboard.  Streamlit runs the script from top to bottom on every   *)
(* interaction; at most one button reads as pressed in a run.  A run is    *)
(* one action: the health probe, the pressed button's handler with its     *)
(* HTTP exchange, and the three render sections.                           *)
(***************************************************************************)
\* sliders and select boxes of the three sections
KptsValues == {n \in 8 .. 40 : (n - 8) % 2 = 0}
DashBandInput ==
    [epsilon : {35}, r_over_a : {20}, num_bands : {4}, resolution : {32},
     k_points_per_segment : KptsValues, lattice : {"square", "triangular"}]
DashTxInput ==
    [epsilon : {35}, r_over_a : {16}, a_mm : {7}, nx : {4}, ny : {4},
     lattice : {"square", "triangular"}, resolution : {24},
     fmin_GHz : {5}, fmax_GHz : {35}, nfreq : {50}]
DashAttInput == AttInput

API_BANDS == IF BACKEND_URL # "" THEN <<"/bands">> ELSE <<>>
API_TX == IF BACKEND_URL # "" THEN <<"/transmission">> ELSE <<>>
API_ATT == IF BACKEND_URL # "" THEN <<"/attenuation">> ELSE <<>>

\* what requests.get / requests.post can end in: the connection fails, the
\* timeout passes, or the backend's response arrives
Exchange(method, path, inp) ==
    {[kind |-> "conn_error"], [kind |-> "timeout"]}
    \cup {[kind |-> "response", status |-> g.out[1].status, body |-> g.out[1].body,
           locals |-> g.locals] : g \in Handle(method, path, inp)}

NoExchange == [kind |-> "not_sent"]

\* r.ok and raise_for_status: a status below 400 passes
Ok(x) == x.kind = "response" /\ x.status < 400

\* backend_ok(url): the outcomes of the probe, none sent for an empty url
HealthProbe ==
    IF BACKEND_URL = "" THEN {NoExchange}
    ELSE Exchange("GET", "/health", [probe |-> TRUE])

\* the POST of a button's handler, none sent when its API_ name is None
Post(api, inp) ==
    IF api = <<>> THEN {NoExchange} ELSE Exchange("POST", api[1], inp)

Sent(path, x) == IF x.kind = "not_sent" THEN <<>> ELSE <<path>>

\* the render sections index the stored dictionary by these keys
BandsRenders(data) ==
    data = <<>> \/ {"frequencies", "k_path_labels"} \subseteq DOMAIN data[1]
TxRenders(data) ==
    data = <<>> \/ {"frequency_GHz", "transmission_dB"} \subseteq DOMAIN data[1]

\* the last tick one past the last row
TicksPastEnd(k_count) == <<0, k_count \div 3, (2 * k_count) \div 3, k_count>>

\* ticks = [0, k_count // 3, 2 * k_count // 3, k_count - 1]
Ticks(k_count) == <<0, k_count \div 3, (2 * k_count) \div 3, k_count - 1>>

\* a handler without raise_for_status: any response that arrives is stored
HandlerStoresAny(api, x, slot, s) ==
    IF api = <<>> THEN [session |-> s, message |-> "warning"]
    ELSE IF x.kind = "response" THEN [session |-> [s EXCEPT ![slot] = <<x.body>>], message |-> "none"]
    ELSE [session |-> s, message |-> "error"]

\* the x axis of the band plot: set_xticks(ticks), set_xticklabels(labels)
BandPlot(data) ==
    IF data # <<>> /\ BandsRenders(data)
    THEN [ticks |-> Ticks(Len(data[1].frequencies)), ticklabels |-> data[1].k_path_labels]
    ELSE [ticks |-> <<>>, ticklabels |-> <<>>]

\* the handler of a pressed button: the slot it writes and the message shown
Handler(api, x, slot, s) ==
    IF api = <<>> THEN [session |-> s, message |-> "warning"]
    ELSE IF Ok(x) THEN [session |-> [s EXCEPT ![slot] = <<x.body>>], message |-> "none"]
    ELSE [session |-> s, message |-> "error"]

\* what a run leaves on the page: the button read as pressed, the requests
\* sent, the health notice, the handler's POST and message, a render failure
Report(button, h, path, x, message, s) ==
    [button |-> button,
     sent |-> Sent("/health", h) \o (IF x.kind \in {"not_sent", "not_reached"} THEN <<>> ELSE <<path>>),
     notice |-> ~Ok(h),
     exchange |-> [kind |-> x.kind, status |-> IF x.kind = "response" THEN x.status ELSE 0],
     message |-> message,
     ticks |-> BandPlot(s.bands_data).ticks,
     ticklabels |-> BandPlot(s.bands_data).ticklabels,
     crash |-> ~(BandsRenders(s.bands_data) /\ TxRenders(s.tx_data))]

NoRun ==
    [button |-> "none", sent |-> <<>>, notice |-> FALSE,
     exchange |-> [kind |-> "not_sent", status |-> 0], message |-> "none",
     ticks |-> <<>>, ticklabels |-> <<>>, crash |-> FALSE]

\* the input and the k-points of the invocation whose response is stored
Generated(locals) ==
    IF "k_points" \in DOMAIN locals
    THEN <<[inp |-> locals.inp, k_points |-> locals.k_points]>>
    ELSE <<>>

\* a widget moved: the script runs with no button pressed
Rerun ==
    \E h \in HealthProbe :
        /\ last' = Report("none", h, "", NoExchange, "none", session)
        /\ UNCHANGED <<session, served, BACKEND_URL, backend_vars>>

PressBands ==
    \E inp \in DashBandInput :
      \E x \in Post(API_BANDS, inp), h \in HealthProbe :
        LET r == Handler(API_BANDS, x, "bands_data", session) IN
        /\ session' = r.session
        /\ served' = IF Ok(x) THEN Generated(x.locals) ELSE served
        /\ last' = Report("bands", h, "/bands", x, r.message, r.session)
        /\ UNCHANGED <<BACKEND_URL, backend_vars>>

\* the transmission section is reached only if the bands plot rendered
PressTx ==
    \E inp \in DashTxInput, h \in HealthProbe :
      \E x \in (IF BandsRenders(session.bands_data) THEN Post(API_TX, inp)
                ELSE {[kind |-> "not_reached"]}) :
        LET r == IF x.kind = "not_reached" THEN [session |-> session, message |-> "none"]
                 ELSE Handler(API_TX, x, "tx_data", session) IN
        /\ session' = r.session
        /\ last' = Report("tx", h, "/transmission", x, r.message, r.session)
        /\ UNCHANGED <<served, BACKEND_URL, backend_vars>>

\* the attenuation section is reached only if both plots above rendered
PressAtt ==
    \E inp \in DashAttInput, h \in HealthProbe :
      \E x \in (IF BandsRenders(session.bands_data) /\ TxRenders(session.tx_data)
                THEN Post(API_ATT, inp) ELSE {[kind |-> "not_reached"]}) :
        LET r == IF x.kind = "not_reached" THEN [session |-> session, message |-> "none"]
                 ELSE Handler(API_ATT, x, "att_data", session) IN
        /\ session' = r.session
        /\ last' = Report("att", h, "/attenuation", x, r.message, r.session)
        /\ UNCHANGED <<served, BACKEND_URL, backend_vars>>

NoSession == [bands_data |-> <<>>, tx_data |-> <<>>, att_data |-> <<>>]

Init ==
    /\ request = [w \in Workers |-> <<>>]
    /\ frame = [w \in Workers |-> <<>>]
    /\ response = [w \in Workers |-> <<>>]
    /\ runs = [w \in Workers |-> 0]
    /\ BACKEND_URL = ""
    /\ session = NoSession
    /\ last = NoRun
    /\ served = <<>>

Next == \E w \in Workers : Step(w)

Spec == Init /\ [][Next]_vars

\* a handler that has started keeps running: the thread pool schedules every
\* thread, and the requests themselves arrive or not as the clients please
Progress(w) ==
    \/ BandsLattice(w) \/ BandsGeometry(w) \/ BandsSolver(w)
    \/ BandsRunTM(w) \/ BandsRunTMFails(w) \/ BandsReturn(w)
    \/ TxAxis(w) \/ TxLattice(w) \/ TxGeometry(w)
    \/ TxCrystal(w) \/ TxCrystalFails(w) \/ TxReference(w) \/ TxReturn(w)

FairSpec == Spec /\ \A w \in Workers : WF_vars(Progress(w))

DashInit ==
    /\ request = [w \in Workers |-> <<>>]
    /\ frame = [w \in Workers |-> <<>>]
    /\ response = [w \in Workers |-> <<>>]
    /\ runs = [w \in Workers |-> 0]
    /\ BACKEND_URL \in {"", "http://localhost:8000"}
    /\ session = NoSession
    /\ last = NoRun
    /\ served = <<>>

DashNext == Rerun \/ PressBands \/ PressTx \/ PressAtt

DashSpec == DashInit /\ [][DashNext]_vars

(***************************************************************************)
(* Properties.                                                             *)
(***************************************************************************)
KnownLattice(l) == l \in {"square", "triangular"}
Serving(w, path) == request[w] # <<>> /\ request[w][1].path = path
Input(w) == request[w][1].inp
Running(w) == frame[w][1]
IsError(resp) == resp.status >= 400 \/ "error" \in DOMAIN resp.body
HasTable(resp) == {"k_path_labels", "frequencies"} \subseteq DOMAIN resp.body

\* C1: a /bands or /transmission request whose lattice keyword is neither
\* "square" nor "triangular" ends in an error, runs no simulation, and is
\* never carried on as if the lattice were a known one.
C1_UnknownLatticeRejected ==
    \A w \in Workers :
        (\E path \in {"/bands", "/transmission"} : Serving(w, path))
        /\ ~KnownLattice(Input(w).lattice)
        => /\ runs[w] = 0
           /\ frame[w] # <<>> => "geometry" \notin DOMAIN Running(w).locals
           /\ response[w] # <<>> => IsError(response[w][1])

\* C2: a /bands request with epsilon < 1 or r_over_a outside (0, 0.5) fails
\* at once: no solver is constructed or run for it and no frequencies are
\* returned.
C2_InvalidParameterRejected ==
    \A w \in Workers :
        Serving(w, "/bands")
        /\ (Input(w).epsilon < 10 \/ Input(w).r_over_a <= 0 \/ Input(w).r_over_a >= 50)
        => /\ runs[w] = 0
           /\ frame[w] # <<>> => "ms" \notin DOMAIN Running(w).locals
           /\ response[w] # <<>> =>
                  IsError(response[w][1]) /\ "frequencies" \notin DOMAIN response[w][1].body

\* C3: every response /bands returns, whatever the input, carries
\* k_path_labels and frequencies.
C3_BandsResponseShape ==
    \A w \in Workers :
        Serving(w, "/bands") /\ response[w] # <<>> /\ response[w][1].status = 200
        => HasTable(response[w][1])

\* C4: the radius of every rod handed to the geometry is r_over_a times the
\* lattice constant a = 1 (r_over_a in hundredths, the radius in thousandths).
C4_RadiusIsRatioTimesA ==
    \A w \in Workers :
        frame[w] # <<>> /\ "geometry" \in DOMAIN Running(w).locals
        => \A i \in 1 .. Len(Running(w).locals.geometry) :
               Running(w).locals.geometry[i].radius = 10 * Input(w).r_over_a

Samples(w) == Input(w).k_points_per_segment

\* C5 as stated: with n samples per segment the three-segment path, and the
\* returned table, has 3n or 3n + 1 points (60 or 61 for n = 20).
C5_PathHas3nPoints ==
    \A w \in Workers :
        Serving(w, "/bands")
        => /\ frame[w] # <<>> /\ "k_points" \in DOMAIN Running(w).locals
              => Len(Running(w).locals.k_points) \in {3 * Samples(w), 3 * Samples(w) + 1}
           /\ response[w] # <<>> /\ HasTable(response[w][1])
              => Len(response[w][1].body.frequencies) \in {3 * Samples(w), 3 * Samples(w) + 1}

\* C5 amended: the path, and the returned table, has 3n + 4 points: the
\* start of each segment, n points inside each segment, and the closing
\* point (64 for n = 20).
C5_PathHas3nPlus4Points ==
    \A w \in Workers :
        Serving(w, "/bands")
        => /\ frame[w] # <<>> /\ "k_points" \in DOMAIN Running(w).locals
              => Len(Running(w).locals.k_points) = 3 * Samples(w) + 4
           /\ response[w] # <<>> /\ HasTable(response[w][1])
              => /\ Len(response[w][1].body.frequencies) = 3 * Samples(w) + 4
                 /\ Samples(w) = 20 => Len(response[w][1].body.frequencies) = 64

C5_Witness ==
    \E w \in Workers :
        /\ Serving(w, "/bands") /\ Samples(w) = 20
        /\ response[w] # <<>> /\ HasTable(response[w][1])
        /\ Len(response[w][1].body.frequencies) = 64

StageRank(pc) ==
    CASE pc = "lattice" -> 1 [] pc = "geometry" -> 2 [] pc = "solver" -> 3
      [] pc = "run_tm" -> 4 [] pc = "return" -> 5

\* a step of a band computation: it stays at its stage, moves to the next
\* one, or ends with its response in the same step
StageOrder ==
    \A w \in Workers :
        Serving(w, "/bands") /\ frame[w] # <<>>
        => \/ frame'[w] = <<>> /\ response'[w] # <<>>
           \/ /\ frame'[w] # <<>>
              /\ StageRank(frame'[w][1].pc) - StageRank(Running(w).pc) \in {0, 1}

\* the engine has run once when the solve is over, and never more
SolveOnce ==
    \A w \in Workers :
        Serving(w, "/bands")
        => /\ runs[w] <= 1
           /\ frame[w] # <<>> => (runs[w] = 1 <=> Running(w).pc = "return")
           /\ response[w] # <<>> /\ HasTable(response[w][1]) => runs[w] = 1

\* C7: a band computation goes through its stages in order, never back,
\* solves once, answers an error in the step that meets it, and always
\* ends in a response.
C7_LinearPipeline ==
    /\ [][StageOrder]_vars
    /\ []SolveOnce
    /\ \A w \in Workers : Serving(w, "/bands") ~> response[w] # <<>>

C7_Witness ==
    \E w \in Workers :
        /\ Serving(w, "/bands") /\ response[w] # <<>>
        /\ response[w][1].status = 500 /\ runs[w] = 1

\* the response of w is one the same request gets when served alone, and
\* the frame of w holds the request of w
OwnResult ==
    \A w \in Workers :
        (\E path \in {"/bands", "/transmission"} : Serving(w, path))
        => /\ frame[w] # <<>> => Running(w).locals.inp = Input(w)
           /\ response[w] # <<>> =>
                  response[w] \in {g.out : g \in Handle(request[w][1].method,
                                                        request[w][1].path, Input(w))}

\* a step changes the objects of one worker only
OwnObjectsOnly ==
    \E w \in Workers :
        \A v \in Workers \ {w} :
            /\ request'[v] = request[v] /\ frame'[v] = frame[v]
            /\ response'[v] = response[v] /\ runs'[v] = runs[v]

\* C8: whatever the interleaving, an invocation reads and writes its own
\* objects only, and its response is the one the same request gets when
\* served alone, whatever was served before.
C8_RequestsIndependent == []OwnResult /\ [][OwnObjectsOnly]_vars

C8_Witness ==
    \E w, v \in Workers :
        /\ w # v
        /\ Serving(w, "/bands") /\ response[w] # <<>> /\ HasTable(response[w][1])
        /\ Serving(v, "/transmission") /\ frame[v] # <<>> /\ Running(v).pc = "reference"

HighSymmetry(lattice) == IF lattice = "square" THEN SquarePath ELSE TriangularPath

\* C6: for every k_points_per_segment the dashboard sends, on both
\* lattices, the four ticks computed from the row count are the indices of
\* the four high-symmetry points in the k-point sequence the backend
\* generated, one tick per label.
C6_TicksOnHighSymmetryPoints ==
    session.bands_data # <<>>
    => /\ served # <<>>
       /\ LET t == last.ticks
              kp == served[1].k_points
              n == served[1].inp.k_points_per_segment
              hs == HighSymmetry(served[1].inp.lattice)
          IN /\ Len(session.bands_data[1].frequencies) = Len(kp)
             /\ Len(t) = 4 /\ Len(last.ticklabels) = Len(t)
             /\ \A i \in 1 .. 4 :
                    /\ t[i] = (i - 1) * (n + 1)
                    /\ kp[t[i] + 1] = <<hs[i][1] * (n + 1), hs[i][2] * (n + 1)>>

C6_Witness ==
    /\ session.bands_data # <<>> /\ served # <<>>
    /\ served[1].inp.k_points_per_segment = 40
    /\ served[1].inp.lattice = "triangular"
    /\ Len(session.bands_data[1].frequencies) = 124
    /\ last.ticks = <<0, 41, 82, 123>>

Slots == {"bands_data", "tx_data", "att_data"}
SlotOf(button) ==
    CASE button = "bands" -> "bands_data" [] button = "tx" -> "tx_data"
      [] button = "att" -> "att_data" [] OTHER -> "none"

\* the run's POST did not bring back a response with a status below 400
Failed(r) ==
    r.exchange.kind \in {"not_sent", "not_reached", "conn_error", "timeout"}
    \/ r.exchange.status >= 400

FrameStep ==
    /\ BACKEND_URL = "" => last'.sent = <<>>
    /\ Failed(last') => session' = session
    /\ \A slot \in Slots : slot # SlotOf(last'.button) => session'[slot] = session[slot]

\* C9: a press whose request fails (no backend address, connection error,
\* timeout, HTTP error status) leaves the three stored results as they
\* were, a press that succeeds changes only its own section's result, and
\* with no backend address no HTTP request is sent.
C9_StoredResultsFrame == [][FrameStep]_vars

C9_Witness ==
    /\ last.button = "att" /\ last.exchange.status = 404
    /\ session.bands_data # <<>> /\ session.tx_data # <<>> /\ session.att_data = <<>>

RoutePaths == {r[2] : r \in Routes}

\* C10: every endpoint the dashboard calls is served by the backend, and a
\* press of a Compute button whose request the backend answers stores a
\* result in the button's slot.
C10_EveryPressStores ==
    /\ \A i \in 1 .. Len(last.sent) : last.sent[i] \in RoutePaths
    /\ BACKEND_URL # "" /\ last.button \in {"bands", "tx", "att"}
       /\ last.exchange.kind = "response"
       => session[SlotOf(last.button)] # <<>>

====
